---------------------------- MODULE Spec2Model ----------------------------
(***************************************************************************)
(* Model of the adaptive questionnaire: the Response Scorer                *)
(* (src/models/scorer.py), the Adaptive Test Controller                    *)
(* (src/models/adaptive_logic.py), the Item Generator's id assignment      *)
(* (src/models/item_generator.py) and the Streamlit session driver         *)
(* (src/app.py).                                                           *)
(*                                                                         *)
(* Numbers.  Scores and abilities are Python floats; the model keeps them  *)
(* as exact fractions <<numerator, denominator>> in lowest terms.          *)
(* Difficulties are kept in tenths (0..10).  Where two candidates are at   *)
(* exactly the same distance the float keys of the source may differ in    *)
(* the last bit (abs(0.2-0.5) < abs(0.8-0.5) in IEEE doubles), so the      *)
(* model lets min() return any of the exactly tied candidates.             *)
(*                                                                         *)
(* Optional values (None in the source) are sequences of length 0 or 1.    *)
(***************************************************************************)
EXTENDS Integers, Sequences, FiniteSets, TLC

VARIABLES
    sample_items,      \* items array of data/sample_items.json (never written)
    test_items,        \* st.session_state.test_items, aliased by adaptive_logic.items
    current_item,      \* st.session_state.current_item (optional item)
    test_in_progress,  \* st.session_state.test_in_progress
    test_complete,     \* st.session_state.test_complete
    adaptive_logic,    \* st.session_state.adaptive_logic (optional controller)
    scores,            \* st.session_state.scores (optional Score Report)
    generator,         \* st.session_state.generator (optional ItemGenerator)
    op,                \* name of the operation executed last
    records,           \* argument of a direct scorer call
    out_score,         \* optional result of score_response on the first record
    out_report         \* optional result of calculate_overall_score(records)

vars == <<sample_items, test_items, current_item, test_in_progress,
          test_complete, adaptive_logic, scores, generator, op,
          records, out_score, out_report>>

driverVars == <<sample_items, test_items, current_item, test_in_progress,
                test_complete, adaptive_logic, scores, generator>>

scorerVars == <<records, out_score, out_report>>

(***************************************************************************)
(* Bounds of the exploration.                                              *)
(***************************************************************************)
MaxVaried == 2      \* responses of a driver session chosen freely; later ones are "3"
MaxGenerated == 2   \* generate_new_item clicks explored
MaxHistory == 2     \* update_ability calls explored when the controller is called directly
MaxRecords == 2     \* length of the mixed record lists handed to the scorer directly
ThresholdLen == 5   \* length of the one-item record lists handed to the scorer directly
MixLen == 3         \* length of the two-domain record lists handed to the scorer directly

(***************************************************************************)
(* Optional values and exact fractions.                                    *)
(***************************************************************************)
None == <<>>

Some(x) == <<x>>

RECURSIVE GCD(_, _)
GCD(a, b) == IF b = 0 THEN a ELSE GCD(b, a % b)

Frac(n, d) == LET g == GCD(n, d) IN <<n \div g, d \div g>>

FracLess(a, b) == a[1] * b[2] < b[1] * a[2]

FracAdd(a, b) == Frac(a[1] * b[2] + b[1] * a[2], a[2] * b[2])

FracDivInt(a, k) == Frac(a[1], a[2] * k)

FracAbsDiff(a, b) ==
    LET x == a[1] * b[2]
        y == b[1] * a[2]
    IN  Frac(IF x >= y THEN x - y ELSE y - x, a[2] * b[2])

Half == <<1, 2>>

One == <<1, 1>>

(***************************************************************************)
(* Items.  type is the sequence of the "_"-separated parts of the type     *)
(* string, text the sequence of the words of the text, domain NoDomain     *)
(* when the item has no "domain" key, difficulty in tenths.                *)
(***************************************************************************)
NoDomain == "<no domain>"

Likert5 == <<"likert", "5">>

Likert7 == <<"likert", "7">>

MultipleChoice == <<"multiple", "choice">>

Item(id, text, type, domain, difficulty) ==
    [id |-> id, text |-> text, type |-> type, domain |-> domain,
     difficulty |-> difficulty]

PlainText == <<"I", "enjoy", "it">>

DontText == <<"I", "Don't", "enjoy", "it">>

NeverText == <<"I", "never", "enjoy", "it">>

\* str.lower() on one word of the vocabulary
LowerWord(w) ==
    CASE w = "I" -> "i"
      [] w = "Don't" -> "don't"
      [] w = "DON'T" -> "don't"
      [] OTHER -> w

Lower(text) == [i \in DOMAIN text |-> LowerWord(text[i])]

\* word in text
Contains(text, word) == \E i \in DOMAIN text : text[i] = word

\* str.startswith on the first part of a type string
StartsWith(type, prefix) == Len(type) > 0 /\ type[1] = prefix


(***************************************************************************)
(* Response Scorer (src/models/scorer.py).                                 *)
(***************************************************************************)
\* self.likert_weights: one scale, keyed by the type string "likert_5"
likert_weights ==
    [t \in {Likert5} |->
        [r \in {"1", "2", "3", "4", "5"} |->
            CASE r = "1" -> Frac(0, 1)
              [] r = "2" -> Frac(1, 4)
              [] r = "3" -> Frac(1, 2)
              [] r = "4" -> Frac(3, 4)
              [] r = "5" -> Frac(1, 1)]]

KnownDomains == {"anxiety", "depression", "stress", "attention",
                 "sociability", "conscientiousness", "fatigue"}

\* self.domain_ranges: the same three bounds for each of the seven domains
domain_ranges ==
    [d \in KnownDomains |->
        [low |-> Frac(0, 1), moderate |-> Frac(3, 10), high |-> Frac(7, 10)]]

InvertedDomains == {"sociability", "conscientiousness"}

\* mutant: an unrecognised response scores 0
RawScore_ZeroDefault(item, response) ==
    LET weights == IF item.type \in DOMAIN likert_weights
                   THEN likert_weights[item.type]
                   ELSE likert_weights[Likert5]
    IN  IF response \in DOMAIN weights THEN weights[response] ELSE Frac(0, 1)

\* weights.get(response, 0.5) with weights = likert_weights.get(type, likert_5's)
RawScore(item, response) ==
    LET weights == IF item.type \in DOMAIN likert_weights
                   THEN likert_weights[item.type]
                   ELSE likert_weights[Likert5]
    IN  IF response \in DOMAIN weights THEN weights[response] ELSE Half

\* mutant: the text is searched without lower()
Inverts_CaseSensitive(item) ==
    /\ item.domain \in InvertedDomains
    /\ ~Contains(item.text, "don't")

\* the condition of the inversion branch
Inverts(item) ==
    /\ item.domain \in InvertedDomains
    /\ ~Contains(Lower(item.text), "don't")

score_response(item, response) ==
    IF StartsWith(item.type, "likert")
    THEN LET raw_score == RawScore(item, response)
         IN  IF Inverts(item) THEN FracAbsDiff(One, raw_score) ELSE raw_score
    ELSE Half

RECURSIVE SumScores(_)
SumScores(rs) ==
    IF rs = <<>> THEN Frac(0, 1)
    ELSE FracAdd(score_response(Head(rs)[1], Head(rs)[2]), SumScores(Tail(rs)))

calculate_domain_score(responses, domain) ==
    LET domain_responses == SelectSeq(responses, LAMBDA r : r[1].domain = domain)
    IN  IF domain_responses = <<>> THEN Half
        ELSE FracDivInt(SumScores(domain_responses), Len(domain_responses))

RECURSIVE SumValues(_, _)
SumValues(f, keys) ==
    IF keys = {} THEN Frac(0, 1)
    ELSE LET k == CHOOSE x \in keys : TRUE
         IN  FracAdd(f[k], SumValues(f, keys \ {k}))

\* mutant: <= in place of <
Level_Inclusive(score, ranges) ==
    IF ~FracLess(ranges.moderate, score) THEN "low"
    ELSE IF ~FracLess(ranges.high, score) THEN "moderate"
    ELSE "high"

\* the level of one score under one domain's ranges
Level(score, ranges) ==
    IF FracLess(score, ranges.moderate) THEN "low"
    ELSE IF FracLess(score, ranges.high) THEN "moderate"
    ELSE "high"

\* the domains that get an entry in interpretations
InterpretedDomains(domain_scores) == DOMAIN domain_scores \cap DOMAIN domain_ranges

\* mutant: the overall score is the mean over the records
calculate_overall_score_PerRecord(responses) ==
    LET domains == {responses[i][1].domain :
                       i \in {j \in DOMAIN responses : responses[j][1].domain # NoDomain}}
        domain_scores == [d \in domains |-> calculate_domain_score(responses, d)]
        with_domain == {j \in DOMAIN responses : responses[j][1].domain # NoDomain}
        overall_score ==
            IF domains # {}
            THEN FracDivInt(SumValues([j \in with_domain |->
                                          score_response(responses[j][1], responses[j][2])],
                                      with_domain),
                            Cardinality(with_domain))
            ELSE Half
        interpretations ==
            [d \in InterpretedDomains(domain_scores) |->
                Level(domain_scores[d], domain_ranges[d])]
    IN  [overall |-> overall_score, domains |-> domain_scores,
         interpretations |-> interpretations]

calculate_overall_score(responses) ==
    LET domains == {responses[i][1].domain :
                       i \in {j \in DOMAIN responses : responses[j][1].domain # NoDomain}}
        domain_scores == [d \in domains |-> calculate_domain_score(responses, d)]
        overall_score == IF domains # {}
                         THEN FracDivInt(SumValues(domain_scores, domains),
                                         Cardinality(domains))
                         ELSE Half
        interpretations ==
            [d \in InterpretedDomains(domain_scores) |->
                Level(domain_scores[d], domain_ranges[d])]
    IN  [overall |-> overall_score, domains |-> domain_scores,
         interpretations |-> interpretations]

(***************************************************************************)
(* Adaptive Test Controller (src/models/adaptive_logic.py).  The           *)
(* controller's items attribute is the very list object the driver keeps   *)
(* as test_items, so the bank is passed to the operations as `items`.      *)
(* domain_items is an insertion-ordered dict: a sequence of                *)
(* [domain, items] entries.                                                *)
(***************************************************************************)
RECURSIVE GroupByDomain(_, _)
GroupByDomain(items, acc) ==
    IF items = <<>> THEN acc
    ELSE LET item == Head(items)
             domain == item.domain
             next == IF domain = NoDomain THEN acc
                     ELSE IF \E i \in DOMAIN acc : acc[i].domain = domain
                     THEN [i \in DOMAIN acc |->
                             IF acc[i].domain = domain
                             THEN [acc[i] EXCEPT !.items = Append(@, item)]
                             ELSE acc[i]]
                     ELSE Append(acc, [domain |-> domain, items |-> <<item>>])
         IN  GroupByDomain(Tail(items), next)

InitialAbility == <<1, 2>>

\* AdaptiveTestLogic(items)
NewLogic(items) ==
    [domain_items |-> GroupByDomain(items, <<>>),
     current_ability |-> InitialAbility,
     answered_items |-> {},
     response_history |-> <<>>]

\* domain_counts.get(d, 0)
DomainCount(history, d) ==
    Cardinality({i \in DOMAIN history : history[i][1].domain = d})

\* mutant: the first domain, whatever the counts
TargetIndex_First(logic) == 1

\* mutant: max() in place of min()
TargetIndex_Max(logic) ==
    LET di == logic.domain_items
        c(i) == DomainCount(logic.response_history, di[i].domain)
    IN  CHOOSE i \in DOMAIN di :
            /\ \A j \in DOMAIN di : c(i) >= c(j)
            /\ \A j \in DOMAIN di : j < i => c(j) < c(i)

\* mutant: the last of the domains with the least count
TargetIndex_Last(logic) ==
    LET di == logic.domain_items
        c(i) == DomainCount(logic.response_history, di[i].domain)
    IN  CHOOSE i \in DOMAIN di :
            /\ \A j \in DOMAIN di : c(i) <= c(j)
            /\ \A j \in DOMAIN di : j > i => c(j) > c(i)

\* min(all_domains, key=count): index of the first domain with the least count
TargetIndex(logic) ==
    LET di == logic.domain_items
        c(i) == DomainCount(logic.response_history, di[i].domain)
    IN  CHOOSE i \in DOMAIN di :
            /\ \A j \in DOMAIN di : c(i) <= c(j)
            /\ \A j \in DOMAIN di : j < i => c(j) > c(i)

\* mutant: answered items are not filtered out
Unanswered_All(seq, logic) == seq

Unanswered(seq, logic) ==
    SelectSeq(seq, LAMBDA item : item.id \notin logic.answered_items)

Range(seq) == {seq[i] : i \in DOMAIN seq}

\* mutant: the fallback draws from the whole bank
RandomRemaining_Any(logic, items) ==
    IF items = <<>> THEN {None}
    ELSE {Some(item) : item \in Range(items)}

\* random.choice(remaining_items), or None
RandomRemaining(logic, items) ==
    LET remaining_items == Unanswered(items, logic)
    IN  IF remaining_items = <<>> THEN {None}
        ELSE {Some(item) : item \in Range(remaining_items)}

Difficulty(item) == Frac(item.difficulty, 10)

\* mutant: the item farthest from the ability
Closest_Farthest(available_items, domain_ability) ==
    LET key(item) == FracAbsDiff(Difficulty(item), domain_ability)
    IN  {item \in Range(available_items) :
            \A other \in Range(available_items) : ~FracLess(key(item), key(other))}

\* The key abs(difficulty - domain_ability) is a binary64 value.  For the
\* abilities that are multiples of 1/4 and a difficulty of d tenths,
\* FloatError is the key minus the exact distance, in units of
\* 1 / (10 * 2^57): the rounding of d / 10 and of the subtraction.  (A score
\* that is a multiple of 1/4 is exact in binary64 when it is a mean of item
\* scores, or a mean of domain scores of which at most one is not a dyadic
\* fraction; the abilities explored here are of these kinds.)
FloatError(difficulty, domain_ability) ==
    LET quarter == (4 * domain_ability[1]) \div domain_ability[2]
        table == << <<0, 8, 16, -16, 32, 0, -32, -64, 64, 32, 0>>,
                    <<0, -8, -16, -16, 32, 0, -32, -64, 64, 32, 0>>,
                    <<0, 32, -16, 16, -32, 0, -32, -64, 64, 32, 0>>,
                    <<0, 32, 64, 16, -32, 0, 32, 64, 64, 32, 0>>,
                    <<0, 32, 64, -64, -32, 0, 32, 64, -64, -32, 0>> >>
    IN  table[quarter + 1][difficulty + 1]

\* the abilities for which FloatError is tabulated
ExactAbility(domain_ability) == domain_ability[2] \in {1, 2, 4}

\* min(available_items, key=|difficulty - domain_ability|): the first item
\* of the least key.  Where the rounding of the keys is tabulated the keys are
\* compared as binary64 values; elsewhere two items at the same exact distance
\* may compare either way, and each of them may be the result.
Closest(available_items, domain_ability) ==
    LET key(item) == FracAbsDiff(Difficulty(item), domain_ability)
        less(a, b) ==
            \/ FracLess(key(a), key(b))
            \/ /\ key(a) = key(b)
               /\ FloatError(a.difficulty, domain_ability)
                    < FloatError(b.difficulty, domain_ability)
    IN  IF ExactAbility(domain_ability)
        THEN {available_items[i] : i \in
                {i \in DOMAIN available_items :
                    /\ \A j \in DOMAIN available_items :
                         ~less(available_items[j], available_items[i])
                    /\ \A j \in 1..(i - 1) :
                         less(available_items[i], available_items[j])}}
        ELSE {item \in Range(available_items) :
                \A other \in Range(available_items) : ~FracLess(key(other), key(item))}

\* mutant: the scalar ability in every case
DomainAbility_Scalar(logic, target_domain, scorer) == logic.current_ability

\* domain_scores.get(target_domain, self.current_ability)
DomainAbility(logic, target_domain, scorer) ==
    LET domain_scores ==
            IF scorer /\ logic.response_history # <<>>
            THEN calculate_overall_score(logic.response_history).domains
            ELSE <<>>
    IN  IF target_domain \in DOMAIN domain_scores
        THEN domain_scores[target_domain]
        ELSE logic.current_ability

\* mutant: an exhausted target is passed over for the first domain that has
\* an unanswered item
select_next_item_SkipExhausted(logic, items, scorer) ==
    LET open == {i \in DOMAIN logic.domain_items :
                    Unanswered(logic.domain_items[i].items, logic) # <<>>}
    IN  IF logic.domain_items = <<>> \/ open = {} THEN RandomRemaining(logic, items)
        ELSE LET target == logic.domain_items[TargetIndex(logic)]
                 available_items == Unanswered(target.items, logic)
                 first == logic.domain_items[CHOOSE i \in open : \A j \in open : i <= j]
             IN  IF available_items = <<>>
                 THEN {Some(item) :
                         item \in Closest(Unanswered(first.items, logic),
                                          DomainAbility(logic, first.domain, scorer))}
                 ELSE {Some(item) :
                         item \in Closest(available_items,
                                          DomainAbility(logic, target.domain, scorer))}

\* mutant: no fallback when the target domain is exhausted
select_next_item_NoFallback(logic, items, scorer) ==
    IF logic.domain_items = <<>> THEN RandomRemaining(logic, items)
    ELSE LET target == logic.domain_items[TargetIndex(logic)]
             available_items == Unanswered(target.items, logic)
         IN  IF available_items = <<>> THEN {None}
             ELSE {Some(item) :
                     item \in Closest(available_items,
                                      DomainAbility(logic, target.domain, scorer))}

\* The values select_next_item(scorer) may return (scorer: whether one is passed).
select_next_item(logic, items, scorer) ==
    IF logic.domain_items = <<>> THEN RandomRemaining(logic, items)
    ELSE LET target == logic.domain_items[TargetIndex(logic)]
             available_items == Unanswered(target.items, logic)
         IN  IF available_items = <<>> THEN RandomRemaining(logic, items)
             ELSE {Some(item) :
                     item \in Closest(available_items,
                                      DomainAbility(logic, target.domain, scorer))}

\* mutant: the ability is computed before the record is appended
update_ability_Stale(logic, item, response) ==
    LET history == Append(logic.response_history, <<item, response>>)
    IN  [logic EXCEPT
            !.answered_items = @ \cup {item.id},
            !.response_history = history,
            !.current_ability =
                calculate_overall_score(logic.response_history).overall]

\* mutant: the record of an answered item replaces the earlier one
update_ability_Replace(logic, item, response) ==
    LET kept == SelectSeq(logic.response_history, LAMBDA rec : rec[1].id # item.id)
        history == Append(kept, <<item, response>>)
    IN  [logic EXCEPT
            !.answered_items = @ \cup {item.id},
            !.response_history = history,
            !.current_ability = calculate_overall_score(history).overall]

\* The controller after update_ability(item, response, scorer); the call
\* returns calculate_overall_score of the new history.
update_ability(logic, item, response) ==
    LET history == Append(logic.response_history, <<item, response>>)
    IN  [logic EXCEPT
            !.answered_items = @ \cup {item.id},
            !.response_history = history,
            !.current_ability = calculate_overall_score(history).overall]

(***************************************************************************)
(* Item banks explored (the items array of data/sample_items.json).        *)
(***************************************************************************)
EmptyBank == <<>>

AnxietyBank ==
    <<Item(1, PlainText, Likert5, "anxiety", 2),
      Item(2, PlainText, Likert5, "anxiety", 5),
      Item(3, PlainText, Likert5, "anxiety", 8)>>

MixedBank ==
    <<Item(1, PlainText, Likert5, "anxiety", 5),
      Item(2, PlainText, Likert5, "sociability", 5),
      Item(3, DontText, Likert5, "sociability", 8),
      Item(4, PlainText, Likert5, "custom", 2),
      Item(5, PlainText, Likert5, "custom", 5),
      Item(6, PlainText, Likert5, "custom", 8)>>

NoDomainBank ==
    <<Item(1, PlainText, Likert5, NoDomain, 3),
      Item(2, PlainText, Likert5, NoDomain, 7),
      Item(3, PlainText, MultipleChoice, NoDomain, 5)>>

PartialBank ==
    <<Item(1, NeverText, Likert5, "conscientiousness", 5),
      Item(2, PlainText, Likert5, NoDomain, 4),
      Item(3, PlainText, Likert7, NoDomain, 6)>>

LongBank ==
    [i \in 1..11 |->
        Item(i, PlainText, Likert5,
             IF i % 2 = 1 THEN "anxiety" ELSE "stress", (3 * i) % 11)]

\* two items of one domain at the same distance from the initial ability,
\* the harder one first
TieBank ==
    <<Item(1, PlainText, Likert5, "anxiety", 8),
      Item(2, PlainText, Likert5, "anxiety", 2)>>

Banks == {EmptyBank, AnxietyBank, MixedBank, NoDomainBank, PartialBank, LongBank,
          TieBank}

(***************************************************************************)
(* Item Generator (src/models/item_generator.py): the id, type, domain and *)
(* difficulty of a generated item.  The text comes from the language       *)
(* model; the domains and difficulties explored are a subset of the        *)
(* seven domains and of 0.1 .. 0.9.                                        *)
(***************************************************************************)
GenDomains == {"stress"}

GenDifficulties == {5}

GenTexts == {PlainText}

RECURSIVE MaxId(_)
MaxId(items) ==
    IF Len(items) = 1 THEN items[1].id
    ELSE LET m == MaxId(Tail(items))
         IN  IF items[1].id > m THEN items[1].id ELSE m

\* ItemGenerator(): existing_items is read from the file
NewGenerator == [existing_items |-> sample_items]

\* the new_item dictionary of generate_item
generate_item(gen, text, domain, difficulty) ==
    Item(MaxId(gen.existing_items) + 1, text, Likert5, domain, difficulty)

(***************************************************************************)
(* Session driver (src/app.py).  Each action is one button click, that is  *)
(* one run of the script.                                                  *)
(***************************************************************************)
Quota == 10

UIResponses == {"1", "2", "3", "4", "5"}

\* the radio's options; beyond MaxVaried recorded responses only "3" is explored
ResponseChoices(history) ==
    IF Len(history) < MaxVaried THEN UIResponses ELSE {"3"}

\* the condition under which the main area shows the current item
Administering == test_in_progress /\ current_item # None

\* the condition under which the main area shows the response radio and the
\* "Submit Response" button
SubmitShown == Administering /\ current_item[1].type = Likert5

\* mutant: > in place of >=
QuotaReached_Late(history) == Len(history) > Quota

\* the quota test of process_response
QuotaReached(history) == Len(history) >= Quota

Init ==
    /\ sample_items \in Banks
    /\ test_items = sample_items
    /\ current_item = None
    /\ test_in_progress = FALSE
    /\ test_complete = FALSE
    /\ adaptive_logic = None
    /\ scores = None
    /\ generator = None
    /\ op = "load"
    /\ records = <<>>
    /\ out_score = None
    /\ out_report = None

\* mutant: a controller that exists is kept
start_test_Reuse ==
    /\ \/ ~test_in_progress /\ ~test_complete
       \/ test_complete
    /\ test_in_progress' = TRUE
    /\ test_complete' = FALSE
    /\ adaptive_logic' = IF adaptive_logic = None THEN Some(NewLogic(test_items))
                         ELSE adaptive_logic
    /\ current_item' \in select_next_item(adaptive_logic'[1], test_items, FALSE)
    /\ scores' = None
    /\ op' = IF test_complete THEN "start_new_test" ELSE "start_test"
    /\ UNCHANGED <<sample_items, test_items, generator>>
    /\ UNCHANGED scorerVars

\* "Start Assessment" (shown on the landing page) / "Start New Assessment"
\* (shown once the test is complete): start_test()
start_test ==
    /\ \/ ~test_in_progress /\ ~test_complete
       \/ test_complete
    /\ test_in_progress' = TRUE
    /\ test_complete' = FALSE
    /\ adaptive_logic' = Some(NewLogic(test_items))
    /\ current_item' \in select_next_item(NewLogic(test_items), test_items, FALSE)
    /\ scores' = None
    /\ op' = IF test_complete THEN "start_new_test" ELSE "start_test"
    /\ UNCHANGED <<sample_items, test_items, generator>>
    /\ UNCHANGED scorerVars

\* "Submit Response": process_response(response)
process_response ==
    /\ SubmitShown
    /\ \E response \in ResponseChoices(adaptive_logic[1].response_history) :
         LET logic == update_ability(adaptive_logic[1], current_item[1], response)
         IN  /\ adaptive_logic' = Some(logic)
             /\ scores' = Some(calculate_overall_score(logic.response_history))
             /\ current_item' \in select_next_item(logic, test_items, TRUE)
             /\ IF current_item' = None \/ QuotaReached(logic.response_history)
                THEN test_in_progress' = FALSE /\ test_complete' = TRUE
                ELSE UNCHANGED <<test_in_progress, test_complete>>
    /\ op' = "process_response"
    /\ UNCHANGED <<sample_items, test_items, generator>>
    /\ UNCHANGED scorerVars

\* "Generate New Item": generate_new_item(); max() of no ids raises and the
\* bank is left as it was
generate_new_item ==
    /\ Len(test_items) - Len(sample_items) < MaxGenerated
    /\ LET gen == IF generator = None THEN NewGenerator ELSE generator[1]
       IN  /\ generator' = Some(gen)
           /\ IF gen.existing_items = <<>>
              THEN UNCHANGED test_items
              ELSE \E text \in GenTexts, domain \in GenDomains,
                      difficulty \in GenDifficulties :
                      test_items' = Append(test_items,
                          generate_item(gen, text, domain, difficulty))
    /\ op' = "generate_new_item"
    /\ UNCHANGED <<sample_items, current_item, test_in_progress, test_complete,
                   adaptive_logic, scores>>
    /\ UNCHANGED scorerVars

Next == start_test \/ process_response \/ generate_new_item

Spec == Init /\ [][Next]_vars

(***************************************************************************)
(* The controller called directly, by any caller: select_next_item with    *)
(* or without a scorer, update_ability with any item (one of the bank,     *)
(* answered or not, or one that is not of the bank) and any response.      *)
(* current_item and scores hold the values returned last.                  *)
(***************************************************************************)
ForeignItem == Item(99, PlainText, Likert5, "depression", 5)

ApiResponses == {"1", "4", "x"}

ApiBanks == Banks \ {LongBank}

InitApi ==
    /\ sample_items \in ApiBanks
    /\ test_items = sample_items
    /\ current_item = None
    /\ test_in_progress = FALSE
    /\ test_complete = FALSE
    /\ adaptive_logic = Some(NewLogic(test_items))
    /\ scores = None
    /\ generator = None
    /\ op = "construct"
    /\ records = <<>>
    /\ out_score = None
    /\ out_report = None

\* mutant: the returned item is marked answered at selection
call_select_next_item_Marks ==
    /\ \E scorer \in BOOLEAN :
         /\ current_item' \in select_next_item(adaptive_logic[1], test_items, scorer)
         /\ adaptive_logic' =
              IF current_item' = None THEN adaptive_logic
              ELSE Some([adaptive_logic[1] EXCEPT
                           !.answered_items = @ \cup {current_item'[1].id}])
    /\ op' = "select_next_item"
    /\ UNCHANGED <<sample_items, test_items, test_in_progress, test_complete,
                   scores, generator>>
    /\ UNCHANGED scorerVars

call_select_next_item ==
    /\ \E scorer \in BOOLEAN :
         current_item' \in select_next_item(adaptive_logic[1], test_items, scorer)
    /\ op' = "select_next_item"
    /\ UNCHANGED <<sample_items, test_items, test_in_progress, test_complete,
                   adaptive_logic, scores, generator>>
    /\ UNCHANGED scorerVars

call_update_ability ==
    /\ Len(adaptive_logic[1].response_history) < MaxHistory
    /\ \E item \in Range(test_items) \cup {ForeignItem}, response \in ApiResponses :
         LET logic == update_ability(adaptive_logic[1], item, response)
         IN  /\ adaptive_logic' = Some(logic)
             /\ scores' = Some(calculate_overall_score(logic.response_history))
    /\ op' = "update_ability"
    /\ UNCHANGED <<sample_items, test_items, current_item, test_in_progress,
                   test_complete, generator>>
    /\ UNCHANGED scorerVars

\* a new session over the same bank: AdaptiveTestLogic(items)
call_new_logic ==
    /\ adaptive_logic[1].response_history # <<>>
    /\ adaptive_logic' = Some(NewLogic(test_items))
    /\ current_item' = None
    /\ scores' = None
    /\ op' = "construct"
    /\ UNCHANGED <<sample_items, test_items, test_in_progress, test_complete,
                   generator>>
    /\ UNCHANGED scorerVars

NextApi == call_select_next_item \/ call_update_ability \/ call_new_logic

SpecApi == InitApi /\ [][NextApi]_vars

(***************************************************************************)
(* The scorer called directly on a list of records.                        *)
(***************************************************************************)
ScorerItems ==
    {Item(1, PlainText, Likert5, "anxiety", 5),
     Item(2, PlainText, Likert5, "sociability", 5),
     Item(3, DontText, Likert5, "sociability", 5),
     Item(4, NeverText, Likert7, "conscientiousness", 5),
     Item(5, PlainText, Likert5, "custom", 5),
     Item(6, PlainText, MultipleChoice, "sociability", 5),
     Item(7, PlainText, Likert5, NoDomain, 5)}

ScorerResponses == UIResponses \cup {"x"}

RECURSIVE SeqsUpTo(_, _)
SeqsUpTo(S, n) ==
    IF n = 0 THEN {<<>>}
    ELSE LET shorter == SeqsUpTo(S, n - 1)
         IN  shorter \cup {Append(q, x) : q \in shorter, x \in S}

\* record lists of one anxiety item, long enough for means of 0.3 and 0.7
ThresholdRecords ==
    {[i \in 1..ThresholdLen |-> <<Item(1, PlainText, Likert5, "anxiety", 5), f[i]>>] :
        f \in [1..ThresholdLen -> {"1", "3", "4"}]}

\* record lists over two domains, long enough for a domain to hold more
\* records than another
MixedRecords ==
    [1..MixLen -> {Item(1, PlainText, Likert5, "anxiety", 5),
                   Item(5, PlainText, Likert5, "custom", 5)} \X {"1", "5"}]

InitScorer ==
    /\ records \in SeqsUpTo(ScorerItems \X ScorerResponses, MaxRecords)
                    \cup ThresholdRecords \cup MixedRecords
    /\ out_score = None
    /\ out_report = None
    /\ sample_items = <<>>
    /\ test_items = <<>>
    /\ current_item = None
    /\ test_in_progress = FALSE
    /\ test_complete = FALSE
    /\ adaptive_logic = None
    /\ scores = None
    /\ generator = None
    /\ op = "scorer"

call_score_response ==
    /\ records # <<>>
    /\ out_score = None
    /\ out_score' = Some(score_response(records[1][1], records[1][2]))
    /\ op' = "score_response"
    /\ UNCHANGED <<records, out_report>>
    /\ UNCHANGED driverVars

call_calculate_overall_score ==
    /\ out_report = None
    /\ out_report' = Some(calculate_overall_score(records))
    /\ op' = "calculate_overall_score"
    /\ UNCHANGED <<records, out_score>>
    /\ UNCHANGED driverVars

NextScorer == call_score_response \/ call_calculate_overall_score

SpecScorer == InitScorer /\ [][NextScorer]_vars

(***************************************************************************)
(* Vocabulary of the properties.                                           *)
(***************************************************************************)
HasLogic == adaptive_logic # None

Ability == adaptive_logic[1].current_ability

Answered == adaptive_logic[1].answered_items

History == adaptive_logic[1].response_history

\* the domains the session's bank declared, in order of first appearance
SessionDomains == [i \in DOMAIN adaptive_logic[1].domain_items |->
                      adaptive_logic[1].domain_items[i].domain]

\* number of records of the history whose item is of domain d
AnsweredCount(d) == Cardinality({i \in DOMAIN History : History[i][1].domain = d})

MinimalCount(d) ==
    \A i \in DOMAIN SessionDomains : AnsweredCount(d) <= AnsweredCount(SessionDomains[i])

\* the items of domain d of the session's bank that are not answered
OpenItems(d) ==
    {item \in UNION {Range(adaptive_logic[1].domain_items[i].items) :
                        i \in DOMAIN SessionDomains} :
        item.domain = d /\ item.id \notin Answered}

\* d is the first domain, in bank order, among those of minimal count
FirstMinimal(d) ==
    \E i \in DOMAIN SessionDomains :
        /\ SessionDomains[i] = d
        /\ MinimalCount(d)
        /\ \A j \in 1..(i - 1) : ~MinimalCount(SessionDomains[j])

\* what select_next_item may return in the current state
Returns(scorer) == select_next_item(adaptive_logic[1], test_items, scorer)

BankExhausted == \A i \in DOMAIN test_items : test_items[i].id \in Answered

(***************************************************************************)
(* Properties.  Those about select_next_item quantify over every value     *)
(* the call may return in the state at hand, with and without a scorer.    *)
(***************************************************************************)
\* C1, as stated: if some domain of minimal answered count still has an
\* unanswered item, every item select_next_item may return is of a domain of
\* minimal answered count.
C1_AnyMinimalDomainServed ==
    HasLogic =>
        \A scorer \in BOOLEAN : \A r \in Returns(scorer) :
            (\E d \in Range(SessionDomains) : MinimalCount(d) /\ OpenItems(d) # {})
            => /\ r # None
               /\ r[1].domain # NoDomain
               /\ MinimalCount(r[1].domain)

\* C1, amended: if the first domain, in bank order, among those of minimal
\* answered count still has an unanswered item, every item select_next_item
\* may return is of a domain of minimal answered count.
C1_FirstMinimalDomainServed ==
    HasLogic =>
        \A scorer \in BOOLEAN : \A r \in Returns(scorer) :
            (\E d \in Range(SessionDomains) : FirstMinimal(d) /\ OpenItems(d) # {})
            => /\ r # None
               /\ r[1].domain \in Range(SessionDomains)
               /\ MinimalCount(r[1].domain)

\* C1, witness: a response was just processed, the item offered next is of
\* the first minimal domain, and a domain of greater count has open items too.
C1_Witness ==
    /\ HasLogic
    /\ op = "process_response"
    /\ current_item # None
    /\ FirstMinimal(current_item[1].domain)
    /\ \E e \in Range(SessionDomains) : ~MinimalCount(e) /\ OpenItems(e) # {}

\* |difficulty - a| of an item, in units of 1/(10 * a[2])
Distance(item, a) ==
    LET x == item.difficulty * a[2] - 10 * a[1]
    IN  IF x >= 0 THEN x ELSE 0 - x

\* r is an open item of domain d, as close to a as any open item of d
ClosestOpen(r, d, a) ==
    /\ r # None
    /\ r[1] \in OpenItems(d)
    /\ \A o \in OpenItems(d) : Distance(r[1], a) <= Distance(o, a)

\* C2, as stated: with a scorer and a non-empty history, if the target domain
\* has an unanswered item, the returned item is the unanswered item of the
\* target closest to domain_score(history, target), which is 0.5 when the
\* target has no recorded response.
C2_ClosestToDomainScore ==
    (HasLogic /\ History # <<>>) =>
        \A d \in Range(SessionDomains) :
            (FirstMinimal(d) /\ OpenItems(d) # {}) =>
                \A r \in Returns(TRUE) :
                    ClosestOpen(r, d, calculate_domain_score(History, d))

\* C2, amended: the reference is the target's per-domain score when the
\* target has a recorded response, and the session's scalar ability (the
\* overall of the last report) when it has none.
C2_ClosestToScoreOrAbility ==
    (HasLogic /\ History # <<>>) =>
        \A d \in Range(SessionDomains) :
            (FirstMinimal(d) /\ OpenItems(d) # {}) =>
                \A r \in Returns(TRUE) :
                    ClosestOpen(r, d, IF AnsweredCount(d) > 0
                                      THEN calculate_domain_score(History, d)
                                      ELSE Ability)

\* C2, witness: the item offered after a response is of a target domain with
\* no recorded response, and an open item of that domain is closer to 0.5.
C2_Witness ==
    /\ HasLogic
    /\ op = "process_response"
    /\ current_item # None
    /\ FirstMinimal(current_item[1].domain)
    /\ AnsweredCount(current_item[1].domain) = 0
    /\ \E o \in OpenItems(current_item[1].domain) :
          Distance(o, Half) < Distance(current_item[1], Half)

\* the Score Report of an empty session
EmptyReport == [overall |-> Half, domains |-> <<>>, interpretations |-> <<>>]

\* C3, as stated: whenever item selection yields no candidate the session is
\* COMPLETE and not IN_PROGRESS; with an empty bank this happens at session
\* start, with the empty Score Report (overall 0.5, no domains).
C3_NoCandidateCompletes ==
    (op \in {"start_test", "start_new_test", "process_response"}
       /\ current_item = None) =>
        /\ test_complete
        /\ ~test_in_progress
        /\ (test_items = <<>> => scores = Some(EmptyReport))

\* C4: in every state of a session in which the id of every item of the bank
\* is in answered_ids, select_next_item returns null, with or without a scorer.
C4_ExhaustedReturnsNull ==
    (HasLogic /\ BankExhausted) =>
        \A scorer \in BOOLEAN : Returns(scorer) = {None}

\* C4, witness: every item of a non-empty bank has been answered in a session
\* run by the driver, and the last selection found nothing.
C4_Witness ==
    /\ HasLogic
    /\ op = "process_response"
    /\ test_items # <<>>
    /\ BankExhausted
    /\ current_item = None

\* C5: in every state of a session in which some item of the bank has an id
\* not in answered_ids, select_next_item returns an item, with or without a
\* scorer.
C5_NullOnlyWhenExhausted ==
    (HasLogic /\ ~BankExhausted) =>
        \A scorer \in BOOLEAN : None \notin Returns(scorer)

\* C5, witness: every declared domain is exhausted, the item offered is one
\* without a domain.
C5_Witness ==
    /\ HasLogic
    /\ op = "process_response"
    /\ History # <<>>
    /\ SessionDomains # <<>>
    /\ \A d \in Range(SessionDomains) : OpenItems(d) = {}
    /\ current_item # None
    /\ current_item[1].domain = NoDomain

\* C6: in a session run by the driver the number of recorded responses never
\* exceeds 10, and whenever it is 10 the session is COMPLETE, not IN_PROGRESS,
\* and no item is shown.
C6_Quota ==
    HasLogic =>
        /\ Len(History) <= 10
        /\ Len(History) = 10 =>
              (test_complete /\ ~test_in_progress /\ ~Administering)

\* C6, witness: the tenth response was recorded while the bank still had an
\* unanswered item.
C6_Witness ==
    /\ HasLogic
    /\ Len(History) = 10
    /\ current_item # None
    /\ test_complete

\* C7: a step of record_response adds the item's id to answered_ids, appends
\* (item, response) to history, sets ability to the overall of the report over
\* the new history and returns that report; hence ability is the overall of
\* the report over history whenever history is not empty.
C7_RecordEffects ==
    /\ [][op' \in {"update_ability", "process_response"} =>
            LET old == adaptive_logic[1]
                new == adaptive_logic'[1]
                n == Len(new.response_history)
                report == calculate_overall_score(new.response_history)
            IN  /\ n = Len(old.response_history) + 1
                /\ new.response_history =
                       Append(old.response_history, new.response_history[n])
                /\ new.answered_items =
                       old.answered_items \cup {new.response_history[n][1].id}
                /\ new.current_ability = report.overall
                /\ new.domain_items = old.domain_items
                /\ scores' = Some(report)]_vars
    /\ []((HasLogic /\ History # <<>>) =>
            Ability = calculate_overall_score(History).overall)

\* C7, witness: the same item was recorded twice, and the ability moved.
C7_Witness ==
    /\ HasLogic
    /\ op = "update_ability"
    /\ Len(History) = 2
    /\ Cardinality(Answered) = 1
    /\ Ability # Half

\* C8: a step of select_next_item leaves ability, answered_ids and history as
\* they were; only record_response and session start change them.
C8_SelectIsPure ==
    /\ [][op' = "select_next_item" => adaptive_logic' = adaptive_logic]_vars
    /\ [][adaptive_logic' # adaptive_logic =>
            op' \in {"update_ability", "construct", "process_response",
                     "start_test", "start_new_test"}]_vars

\* C8, witness: select_next_item took the random fallback after a response.
C8_Witness ==
    /\ HasLogic
    /\ op = "select_next_item"
    /\ History # <<>>
    /\ current_item # None
    /\ \E d \in Range(SessionDomains) : FirstMinimal(d) /\ OpenItems(d) = {}

\* the band of a score under the thresholds 0.3 and 0.7
Band(score) ==
    IF 10 * score[1] < 3 * score[2] THEN "low"
    ELSE IF 10 * score[1] < 7 * score[2] THEN "moderate"
    ELSE "high"

HasDont(text) == \E i \in DOMAIN text : text[i] \in {"don't", "Don't", "DON'T"}

LinearScore(response) ==
    CASE response = "1" -> <<0, 1>>
      [] response = "2" -> <<1, 4>>
      [] response = "3" -> <<1, 2>>
      [] response = "4" -> <<3, 4>>
      [] response = "5" -> <<1, 1>>
      [] OTHER -> <<1, 2>>

\* C11: a likert_5 item of a domain that is not inverted scores 0, 0.25, 0.5,
\* 0.75, 1 for "1" .. "5" and 0.5 for any other response; an item whose type
\* is not of the likert family scores 0.5 for every response; every score is
\* within [0, 1].
C11_LinearScores ==
    out_score # None =>
        LET item == records[1][1]
            score == out_score[1]
        IN  /\ (item.type = <<"likert", "5">>
                  /\ item.domain \notin {"sociability", "conscientiousness"})
                 => score = LinearScore(records[1][2])
            /\ item.type[1] # "likert" => score = <<1, 2>>
            /\ 0 <= score[1] /\ score[1] <= score[2] /\ score[2] > 0

\* C11, witness: an unrecognised response to a likert_5 anxiety item scored
\* 0.5, next to a record of an item that is not of the likert family.
C11_Witness ==
    /\ out_score = Some(<<1, 2>>)
    /\ records[1][1].type = <<"likert", "5">>
    /\ records[1][1].domain = "anxiety"
    /\ records[1][2] = "x"
    /\ Len(records) = 2
    /\ records[2][1].type[1] # "likert"

\* the domains that occur in the records handed to the scorer
RecordDomains == {records[i][1].domain : i \in DOMAIN records} \ {NoDomain}

RecordsOf(d) == {i \in DOMAIN records : records[i][1].domain = d}

\* the score of record i in quarters (every item score is a multiple of 1/4)
Quarters(i) ==
    LET s == score_response(records[i][1], records[i][2])
    IN  (4 * s[1]) \div s[2]

RECURSIVE QuarterSum(_)
QuarterSum(indices) ==
    IF indices = {} THEN 0
    ELSE LET i == CHOOSE x \in indices : TRUE
         IN  Quarters(i) + QuarterSum(indices \ {i})

RECURSIVE CountProduct(_)
CountProduct(D) ==
    IF D = {} THEN 1
    ELSE LET d == CHOOSE x \in D : TRUE
         IN  Cardinality(RecordsOf(d)) * CountProduct(D \ {d})

\* the sum over the domains of D of the domain's mean, in units of 1/(4 * P)
RECURSIVE ScaledMeanSum(_, _)
ScaledMeanSum(D, P) ==
    IF D = {} THEN 0
    ELSE LET d == CHOOSE x \in D : TRUE
         IN  QuarterSum(RecordsOf(d)) * (P \div Cardinality(RecordsOf(d)))
               + ScaledMeanSum(D \ {d}, P)

\* C12: the report holds a domain score for exactly the domains that occur in
\* a record, each the mean of the scores of that domain's records; overall is
\* the unweighted mean of the domain scores, and 0.5 when no record has a
\* domain.
C12_ReportMeans ==
    out_report # None =>
        LET report == out_report[1]
            P == CountProduct(RecordDomains)
            k == Cardinality(RecordDomains)
        IN  /\ DOMAIN report.domains = RecordDomains
            /\ \A d \in RecordDomains :
                 report.domains[d][1] * 4 * Cardinality(RecordsOf(d))
                   = report.domains[d][2] * QuarterSum(RecordsOf(d))
            /\ IF RecordDomains = {}
               THEN report.overall = <<1, 2>>
               ELSE report.overall[1] * 4 * P * k
                      = report.overall[2] * ScaledMeanSum(RecordDomains, P)

\* C12, witness: a report over two domains of which one has two records, whose
\* overall score, 0.5, is not the mean 1/3 of the three item scores.
C12_Witness ==
    /\ out_report # None
    /\ Len(records) = 3
    /\ Cardinality(RecordsOf("anxiety")) = 2
    /\ Cardinality(RecordsOf("custom")) = 1
    /\ out_report[1].domains["anxiety"] = <<0, 1>>
    /\ out_report[1].domains["custom"] = <<1, 1>>
    /\ out_report[1].overall = <<1, 2>>

\* C12, witness of the empty case: the report of records without a domain.
C12_WitnessNoDomain ==
    /\ out_report # None
    /\ records # <<>>
    /\ RecordDomains = {}
    /\ out_report[1].overall = <<1, 2>>

\* the session runs over the bank of three likert_5 anxiety items of
\* difficulties 0.2, 0.5 and 0.8
ThreeAnxietyItems ==
    /\ HasLogic
    /\ Len(adaptive_logic[1].domain_items) = 1
    /\ adaptive_logic[1].domain_items[1].domain = "anxiety"
    /\ LET items == adaptive_logic[1].domain_items[1].items
       IN  /\ Len(items) = 3
           /\ \A i \in 1..3 : items[i].type = <<"likert", "5">>
           /\ items[1].difficulty = 2
           /\ items[2].difficulty = 5
           /\ items[3].difficulty = 8

\* C13: over three likert_5 anxiety items of difficulties 0.2, 0.5, 0.8 the
\* session's first item is the one of difficulty 0.5; once "5" is recorded
\* for it the ability is 1.0 and the next item is the one of difficulty 0.8.
C13_WorkedSession ==
    ThreeAnxietyItems =>
        /\ op \in {"start_test", "start_new_test"} =>
             /\ Ability = <<1, 2>>
             /\ current_item # None
             /\ current_item[1].difficulty = 5
        /\ (op = "process_response" /\ Len(History) = 1 /\ History[1][2] = "5") =>
             /\ History[1][1].difficulty = 5
             /\ Ability = <<1, 1>>
             /\ current_item # None
             /\ current_item[1].difficulty = 8

\* C13, witness: the worked session after its first response "5".
C13_Witness ==
    /\ ThreeAnxietyItems
    /\ op = "process_response"
    /\ Len(History) = 1
    /\ History[1][2] = "5"
    /\ current_item # None
    /\ current_item[1].difficulty = 8
    /\ test_in_progress

\* the items of the bank that are of domain d, in bank order
BankItemsOf(d) ==
    LET OfDomain(item) == item.domain = d
    IN  SelectSeq(test_items, OfDomain)

\* the controller is the one a fresh session over the bank gets
FreshController ==
    /\ HasLogic
    /\ Ability = <<1, 2>>
    /\ Answered = {}
    /\ History = <<>>
    /\ Range(SessionDomains) = {test_items[i].domain : i \in DOMAIN test_items} \ {NoDomain}
    /\ \A i, j \in DOMAIN SessionDomains : i # j => SessionDomains[i] # SessionDomains[j]
    /\ \A i \in DOMAIN SessionDomains :
         adaptive_logic[1].domain_items[i].items = BankItemsOf(SessionDomains[i])

\* C14: a start, and a restart after the test is complete, leave the session
\* in progress with ability 0.5, no answered id, an empty history and no
\* report: the state of a fresh session over the bank, whatever came before.
C14_StartIsFresh ==
    op \in {"start_test", "start_new_test"} =>
        /\ test_in_progress
        /\ ~test_complete
        /\ FreshController
        /\ scores = None
        /\ current_item \in Returns(FALSE)

\* C14, witness: a session restarted after a completed one, with an item
\* on offer.
C14_Witness ==
    /\ op = "start_new_test"
    /\ test_in_progress
    /\ FreshController
    /\ current_item # None

\* C15: select_next_item never returns an item whose id is in answered_ids;
\* in a session run by the driver no item id occurs twice in the history and
\* answered_ids has as many elements as the history has records.
C15_NoRepeats ==
    HasLogic =>
        /\ \A scorer \in BOOLEAN : \A r \in Returns(scorer) :
             r # None => r[1].id \notin Answered
        /\ (test_in_progress /\ current_item # None) => current_item[1].id \notin Answered
        /\ \A i, j \in DOMAIN History : i # j => History[i][1].id # History[j][1].id
        /\ Cardinality(Answered) = Len(History)

\* C15, witness: a session with three recorded responses, an item on offer
\* and two items of the bank that share an id, one of them answered.
C15_Witness ==
    /\ HasLogic
    /\ test_in_progress
    /\ Len(History) = 3
    /\ current_item # None
    /\ \E i, j \in DOMAIN test_items :
         /\ i # j
         /\ test_items[i].id = test_items[j].id
         /\ test_items[i].id \in Answered

\* C16, as stated: no reachable state leaves the session in progress with no
\* operation able to advance it: while the test is in progress the test-taker
\* is offered an item and the means to submit a response to it.
C16_InProgressCanAdvance ==
    test_in_progress => SubmitShown

\* C16, second case: whenever the session in progress offers an item, a
\* response to it can be submitted.
C16_OfferedItemCanBeAnswered ==
    (test_in_progress /\ current_item # None) => SubmitShown

\* C17: the ids of the items of the bank are pairwise different, after any
\* sequence of generate-new-item operations.
C17_UniqueIds ==
    \A i, j \in DOMAIN test_items : i # j => test_items[i].id # test_items[j].id

\* the index of the first item of domain d in the bank
FirstAppearance(d) ==
    CHOOSE i \in DOMAIN test_items :
        /\ test_items[i].domain = d
        /\ \A j \in 1..(i - 1) : test_items[j].domain # d

\* d is, among the domains grouped at construction that have the least
\* answered count, the one that appears first in the bank
EarliestMinimal(d) ==
    /\ d \in Range(SessionDomains)
    /\ MinimalCount(d)
    /\ \A e \in Range(SessionDomains) :
         MinimalCount(e) => FirstAppearance(d) <= FirstAppearance(e)

\* the domains of the items of the bank as it is now
BankDomains == {test_items[i].domain : i \in DOMAIN test_items} \ {NoDomain}

\* d is, among the domains of the bank that have the least answered count,
\* the one that appears first in the bank
EarliestMinimalOfBank(d) ==
    /\ d \in BankDomains
    /\ \A e \in BankDomains :
         /\ AnsweredCount(d) <= AnsweredCount(e)
         /\ AnsweredCount(e) = AnsweredCount(d) => FirstAppearance(d) <= FirstAppearance(e)

\* C18, as stated: the target domain is the first domain, in order of first
\* appearance in the bank, among the domains of the bank of minimum answered
\* count; whenever it has an unanswered item, the item returned is of it.
C18_TargetIsEarliestMinimalOfBank ==
    HasLogic =>
        \A d \in BankDomains :
            (/\ EarliestMinimalOfBank(d)
             /\ \E i \in DOMAIN test_items :
                  test_items[i].domain = d /\ test_items[i].id \notin Answered)
            => \A scorer \in BOOLEAN : \A r \in Returns(scorer) :
                   r # None /\ r[1].domain = d

\* C18, amended: the target domain is the first domain, in order of first
\* appearance in the bank, among the domains grouped at construction that
\* have the minimum answered count; whenever it has an unanswered item, the
\* item returned is one of its unanswered items.
C18_TargetIsEarliestMinimal ==
    HasLogic =>
        \A d \in Range(SessionDomains) :
            EarliestMinimal(d) =>
                /\ SessionDomains[TargetIndex(adaptive_logic[1])] = d
                /\ OpenItems(d) # {} =>
                     \A scorer \in BOOLEAN : \A r \in Returns(scorer) :
                         /\ r # None
                         /\ r[1].domain = d
                         /\ r[1] \in OpenItems(d)

\* C18, witness: after a response two domains tie at the minimum count, both
\* with unanswered items, and the item on offer is of the one that appears
\* first in the bank.
C18_Witness ==
    /\ HasLogic
    /\ op = "process_response"
    /\ History # <<>>
    /\ current_item # None
    /\ EarliestMinimal(current_item[1].domain)
    /\ \E e \in Range(SessionDomains) :
         /\ e # current_item[1].domain
         /\ MinimalCount(e)
         /\ OpenItems(e) # {}

\* the index in the bank of the first item equal to item
BankPosition(item) ==
    CHOOSE i \in DOMAIN test_items :
        /\ test_items[i] = item
        /\ \A j \in 1..(i - 1) : test_items[j] # item

\* C19: when select_next_item is called without a scorer or with an empty
\* history and the target domain has an unanswered item, the item returned is
\* an unanswered item of the target domain as close to the scalar ability as
\* any, and the earliest in bank order of those at that distance.
C19_EarliestClosest ==
    HasLogic =>
        \A scorer \in BOOLEAN :
            (~scorer \/ History = <<>>) =>
                \A d \in Range(SessionDomains) :
                    (EarliestMinimal(d) /\ OpenItems(d) # {}) =>
                        \A r \in Returns(scorer) :
                            /\ ClosestOpen(r, d, Ability)
                            /\ \A o \in OpenItems(d) :
                                 Distance(o, Ability) = Distance(r[1], Ability)
                                   => BankPosition(r[1]) <= BankPosition(o)

\* C20: from one state of a session to the next, restart apart, answered_ids
\* keeps every id it had and the history keeps every record it had, in place:
\* the old history is a prefix of the new one.  This holds also for a record
\* of an item that was answered before or that was never issued.
C20_GrowOnly ==
    [][op' # "construct" =>
         /\ Answered \subseteq Answered'
         /\ Len(History) <= Len(History')
         /\ SubSeq(History', 1, Len(History)) = History]_vars

\* C20, witness: an item that is not of the bank, never issued by a
\* selection, was recorded twice.
C20_Witness ==
    /\ HasLogic
    /\ op = "update_ability"
    /\ Len(History) = 2
    /\ History[1][1].id = History[2][1].id
    /\ \A i \in DOMAIN test_items : test_items[i].id # History[1][1].id
    /\ Answered = {History[1][1].id}

\* the bank is the one that was loaded: no item was generated
FixedBank == test_items = sample_items

\* the domain select_next_item takes as target in the current state
TargetDomain == SessionDomains[TargetIndex(adaptive_logic[1])]

\* select_next_item takes the fallback path in the current state because its
\* target domain has no unanswered item
TargetExhausted ==
    /\ HasLogic
    /\ SessionDomains # <<>>
    /\ OpenItems(TargetDomain) = {}

\* the unanswered items of the bank, each a possible result, or null if none
AnyUnanswered ==
    IF BankExhausted THEN {None}
    ELSE {Some(test_items[i]) :
            i \in {j \in DOMAIN test_items : test_items[j].id \notin Answered}}

\* C21: over a fixed bank with unique ids, a selection whose target domain is
\* exhausted draws from all unanswered items, and from then on, within the
\* session, the same domain stays the exhausted target: no later selection
\* is matched by difficulty.
C21_FallbackForEver ==
    /\ []((FixedBank /\ TargetExhausted) =>
            \A scorer \in BOOLEAN : Returns(scorer) = AnyUnanswered)
    /\ [][(FixedBank /\ FixedBank' /\ TargetExhausted
             /\ op' \notin {"start_test", "start_new_test", "construct"})
          => /\ TargetExhausted'
             /\ TargetDomain' = TargetDomain]_vars

\* C21, witness: over a fixed bank the last two selections took the fallback
\* path (the target was exhausted before the last response too), an item is
\* on offer, and a domain other than the target still has unanswered items.
C21_Witness ==
    /\ FixedBank
    /\ TargetExhausted
    /\ op = "process_response"
    /\ test_in_progress
    /\ current_item # None
    /\ Len(History) >= 2
    /\ History[Len(History)][1].domain # TargetDomain
    /\ History[Len(History) - 1][1].domain # TargetDomain
    /\ AnsweredCount(TargetDomain) < AnsweredCount(History[Len(History) - 1][1].domain)
    /\ \E d \in Range(SessionDomains) : OpenItems(d) # {}

\* the controller as it was when the history had its first k records
AfterRecords(k) ==
    [adaptive_logic[1] EXCEPT
        !.response_history = SubSeq(History, 1, k),
        !.answered_items = {History[i][1].id : i \in 1..k}]

\* the selection made after the first k records found an unanswered item in
\* its target domain
MatchedSelection(k) ==
    LET logic == AfterRecords(k)
    IN  /\ logic.domain_items # <<>>
        /\ Unanswered(logic.domain_items[TargetIndex(logic)].items, logic) # <<>>

\* no selection of the session so far has taken the fallback path
NoFallbackSoFar == \A k \in 0..Len(History) : MatchedSelection(k)

EveryItemHasDomain == \A i \in DOMAIN test_items : test_items[i].domain # NoDomain

\* C22, as stated: in a session run by the driver over a bank in which every
\* item has a domain, as long as no selection has taken the fallback path,
\* the answered counts of any two domains of the bank differ by at most 1.
C22_BankDomainsBalanced ==
    (HasLogic /\ EveryItemHasDomain /\ NoFallbackSoFar) =>
        \A d, e \in BankDomains :
            AnsweredCount(d) - AnsweredCount(e) <= 1

\* C22, amended: in a session run by the driver over a bank in which every
\* item has a domain, as long as no selection has taken the fallback path,
\* the answered counts of any two domains the bank had when the session
\* started differ by at most 1.
C22_BreadthBalance ==
    (HasLogic /\ EveryItemHasDomain /\ NoFallbackSoFar) =>
        \A d, e \in Range(SessionDomains) :
            AnsweredCount(d) - AnsweredCount(e) <= 1

\* C22, witness: five responses over two domains without a fallback, three to
\* one domain and two to the other, and an item on offer.
C22_Witness ==
    /\ HasLogic
    /\ EveryItemHasDomain
    /\ NoFallbackSoFar
    /\ test_in_progress
    /\ current_item # None
    /\ Len(History) = 5
    /\ \E d, e \in Range(SessionDomains) :
         AnsweredCount(d) = 3 /\ AnsweredCount(e) = 2

=============================================================================
